---- MODULE Spec2Model ----
(***************************************************************************)
(* VeriLens scan route (user_side/verilens/src/app/api/scan/route.ts):     *)
(* the POST handler's four phases, the two detectors and the two           *)
(* classifier adapters, as a state machine.                                *)
(*                                                                         *)
(* Numbers.  Every percentage (confidence, score) is an integer count of   *)
(* thousandths of a percent (60 % is 60000), so that one-decimal rounding  *)
(* and the 1.1 boost are exact.  A remote score (a fraction in [0, 1]) is  *)
(* an integer count of 1/10000 (0.3 is 3000).                              *)
(***************************************************************************)
EXTENDS Integers, Sequences, FiniteSets, TLC

(* ------------------------------ bounds -------------------------------- *)

\* An image carries at most MaxEvidence independent pieces of evidence.
MaxEvidence == 2

\* A remote response lists at most MaxPreds (label, score) predictions.
MaxPreds == 2

(* ------------------------- program constants --------------------------- *)

MAX_UPLOAD_BYTES == 52428800

ALLOWED_MIME_TYPES == {"image/png", "image/jpeg", "image/webp"}

(* ------------------------------ numbers -------------------------------- *)

\* n percent, in thousandths of a percent.
Pct(n) == n * 1000

Min(a, b) == IF a < b THEN a ELSE b

Max(a, b) == IF a > b THEN a ELSE b

\* Math.round(n * 10) / 10 on a percentage: Math.round rounds half up
\* (towards +infinity), also for negative numbers.
Round1(m) == ((m + 50) \div 100) * 100

\* Math.round(score * 1000) / 10 on a remote fraction: a percentage with
\* one decimal.
FractionToPct(s) == ((s + 5) \div 10) * 100

OneDecimal(m) == m % 100 = 0

(* --------------------------- sequence helpers -------------------------- *)

Opt(c, x) == IF c THEN <<x>> ELSE <<>>

RECURSIVE Flatten(_)
Flatten(ss) == IF ss = <<>> THEN <<>> ELSE Head(ss) \o Flatten(Tail(ss))

RECURSIVE Filter(_, _)
Filter(s, keep) ==
    IF s = <<>> THEN <<>>
    ELSE (IF Head(s) \in keep THEN <<Head(s)>> ELSE <<>>) \o Filter(Tail(s), keep)

Range(s) == {s[i] : i \in DOMAIN s}

\* [...new Set(list)]: the first occurrence of every element, in order.
RECURSIVE Dedup(_)
Dedup(s) ==
    IF s = <<>> THEN <<>>
    ELSE LET front == Dedup(SubSeq(s, 1, Len(s) - 1))
             last  == s[Len(s)]
         IN  IF last \in Range(front) THEN front ELSE Append(front, last)

RECURSIVE SubsetsUpTo(_, _)
SubsetsUpTo(S, k) ==
    IF k = 0 THEN {{}}
    ELSE LET P == SubsetsUpTo(S, k - 1)
         IN  P \cup {s \cup {x} : s \in P, x \in S}

(* ------------------------------ the image ------------------------------ *)
(* The uploaded buffer, by what its bytes hold.  A piece of evidence is a  *)
(* record [k, f, v]:                                                       *)
(*   k = "ascii": the ASCII decoding of the bytes contains the text v;     *)
(*   k = "chunk": the file is a PNG with a chunk of type f whose payload   *)
(*                is the text v (which is then part of the bytes too);     *)
(*   k = "meta" : exifr yields the tag f with the value v;                 *)
(*   k = "exifr": exifr.parse throws on this buffer;                       *)
(*   k = "jpeg" : the file is a JPEG a DQT table of which is uniform.      *)
(***************************************************************************)

Fact(k, f, v) == [k |-> k, f |-> f, v |-> v]

AsciiTokens ==
    {"c2pa.hash.synthid", "steg.synthid", "c2pa.soft-binding", "synthid",
     "google-ai-watermark", "c2pa", "jumb", "jumd"}

\* The keywords of the PNG chunk scan, in the order the code tries them.
keywords ==
    <<"synthid", "google:watermark", "ai:watermark", "c2pa",
      "content-credentials", "google-ai">>

\* The chunks an image may hold, in file order.
ChunkOrder ==
    [i \in 1..Len(keywords) |-> Fact("chunk", "tEXt", keywords[i])]
        \o <<Fact("chunk", "iTXt", "synthid"), Fact("chunk", "IDAT", "synthid")>>

MetaValues ==
    {Fact("meta", "DigitalSourceType", "trainedAlgorithmicMedia"),
     Fact("meta", "DigitalSourceType", "compositeSynthetic"),
     Fact("meta", "Software", "Midjourney"),
     Fact("meta", "Software", "Imagen"),
     Fact("meta", "CreatorTool", "Midjourney"),
     Fact("meta", "Creator", "Midjourney"),
     Fact("meta", "Creator", "DeepMind"),
     Fact("meta", "Credit", "google:ai"),
     Fact("meta", "ImageDescription", "Steps: 20, Sampler: Euler a"),
     Fact("meta", "ImageDescription", "AI-generated image"),
     Fact("meta", "Description", "Steps: 20, Sampler: Euler a"),
     Fact("meta", "UserComment", "negative_prompt: blurry"),
     Fact("meta", "ContentCredentials", "present")}

ExifrThrows == Fact("exifr", "parse", "throws")

UniformDQT == Fact("jpeg", "DQT", "uniform")

Facts ==
    {Fact("ascii", "bytes", t) : t \in AsciiTokens}
        \cup Range(ChunkOrder) \cup MetaValues \cup {ExifrThrows, UniformDQT}

\* One value per metadata tag; a file is a PNG or a JPEG, not both.
Consistent(img) ==
    /\ \A a, b \in img : (a.k = "meta" /\ b.k = "meta" /\ a.f = b.f) => a = b
    /\ ~ \E a, b \in img : a.k = "chunk" /\ b.k = "jpeg"

Images == {img \in SubsetsUpTo(Facts, MaxEvidence) : Consistent(img)}

\* The texts among Needles that the text t contains (String.includes, and
\* the case-insensitive regular expressions of the pattern tables).
Contained(t) ==
    CASE t = "c2pa.hash.synthid"   -> {"c2pa.hash.synthid", "synthid", "c2pa"}
      [] t = "steg.synthid"        -> {"steg.synthid", "synthid"}
      [] t = "c2pa.soft-binding"   -> {"c2pa.soft-binding", "c2pa"}
      [] t = "google-ai-watermark" -> {"google-ai-watermark", "google-ai"}
      [] OTHER                     -> {t}

\* new TextDecoder("ascii").decode(bytes), by the texts it contains: a
\* chunk's payload is part of the bytes.
Ascii(img) ==
    UNION {Contained(x.v) : x \in {y \in img : y.k \in {"ascii", "chunk"}}}

\* await exifr.parse(buffer, ...) throws on this buffer.
ParseThrows(img) == ExifrThrows \in img

\* The tags exifr.parse yields when it does not throw.
ExifrParse(img) == {x \in img : x.k = "meta"}

\* meta.A ?? meta.B ?? ... ?? "": the value of the first tag present.
RECURSIVE Tag(_, _)
Tag(meta, names) ==
    IF names = <<>> THEN ""
    ELSE IF \E x \in meta : x.f = Head(names)
         THEN (CHOOSE x \in meta : x.f = Head(names)).v
         ELSE Tag(meta, Tail(names))

IsPNG(img) == \E x \in img : x.k = "chunk"

IsJPEG(img) == UniformDQT \in img

(* --------------------------- detectSynthID ----------------------------- *)

\* The signature table of step 1: <<text the pattern matches, label>>.
c2paPatterns ==
    <<<<"c2pa.hash.synthid", "C2PA SynthID hash assertion">>,
      <<"steg.synthid", "C2PA SynthID steganographic assertion">>,
      <<"c2pa.soft-binding", "C2PA soft-binding assertion (watermark)">>,
      <<"synthid", "SynthID marker in binary payload">>,
      <<"google-ai-watermark", "Google AI watermark identifier">>>>

\* Step 1: one signal per pattern that matches the decoded bytes.
AsciiSignals(img) ==
    Flatten([i \in 1..Len(c2paPatterns) |->
                Opt(c2paPatterns[i][1] \in Ascii(img), c2paPatterns[i][2])])

\* Mutant: the tags are read although the parse threw.
MetaSignals_IgnoresThrow(img) ==
    IF ExifrParse(img) = {} THEN <<>>
    ELSE LET meta == ExifrParse(img)
             dst  == Tag(meta, <<"DigitalSourceType", "digitalSourceType">>)
             vals == {x.v : x \in meta}
         IN  Opt(dst = "trainedAlgorithmicMedia",
                 "IPTC DigitalSourceType: trainedAlgorithmicMedia (SynthID-standard)")
             \o Opt("google:ai" \in vals, "Google AI XMP namespace detected")
             \o Opt("DeepMind" \in vals, "DeepMind reference found in metadata")
             \o Opt(\E x \in meta : x.f = "ContentCredentials",
                    "ContentCredentials field present")

\* Step 2: the Google-specific metadata tags; nothing when the parse throws.
MetaSignals(img) ==
    IF ParseThrows(img) \/ ExifrParse(img) = {} THEN <<>>
    ELSE LET meta == ExifrParse(img)
             dst  == Tag(meta, <<"DigitalSourceType", "digitalSourceType">>)
             sw   == Tag(meta, <<"Software", "CreatorTool">>)
             vals == {x.v : x \in meta}
         IN  Opt(dst = "trainedAlgorithmicMedia",
                 "IPTC DigitalSourceType: trainedAlgorithmicMedia (SynthID-standard)")
             \o Opt("google:ai" \in vals, "Google AI XMP namespace detected")
             \o Opt("DeepMind" \in vals, "DeepMind reference found in metadata")
             \o Opt(\E x \in meta : x.f = "ContentCredentials",
                    "ContentCredentials field present")
             \o Opt(sw = "Imagen",
                    "Google AI tool detected in Software: \"" \o sw \o "\"")

ChunkLabel(type, kw) == "PNG " \o type \o " chunk contains \"" \o kw \o "\""

\* Step 3: the text chunks of a PNG, each searched for every keyword.
ChunkSignals(img) ==
    IF ~ IsPNG(img) THEN <<>>
    ELSE Flatten([i \in 1..Len(ChunkOrder) |->
            IF ChunkOrder[i] \in img /\ ChunkOrder[i].f \in {"tEXt", "iTXt", "zTXt"}
            THEN Flatten([j \in 1..Len(keywords) |->
                    Opt(keywords[j] \in Contained(ChunkOrder[i].v),
                        ChunkLabel(ChunkOrder[i].f, keywords[j]))])
            ELSE <<>>])

\* The labels the high-confidence pattern
\* /synthid|c2pa|google.*ai|deepmind|content.?credentials|trainedalgorithmicmedia/i
\* matches: every label but those of the two chunk keywords it misses.
HighConfidence ==
    {c2paPatterns[i][2] : i \in 1..Len(c2paPatterns)}
        \cup {"IPTC DigitalSourceType: trainedAlgorithmicMedia (SynthID-standard)",
              "Google AI XMP namespace detected",
              "DeepMind reference found in metadata",
              "ContentCredentials field present",
              "Google AI tool detected in Software: \"Imagen\""}
        \cup {ChunkLabel(t, kw) : t \in {"tEXt", "iTXt", "zTXt"},
                                  kw \in {"synthid", "c2pa", "content-credentials", "google-ai"}}

\* Mutant: every signal weighs 20.
SynthIDConfidence_AllStrong(signals) ==
    IF signals = <<>> THEN 0
    ELSE Min(Pct(98), Pct(40) + Len(signals) * Pct(20))

\* Lines 198-205: 0 without signals, else the weighted sum capped at 98.
SynthIDConfidence(signals) ==
    IF signals = <<>> THEN 0
    ELSE LET high == Len(Filter(signals, HighConfidence))
         IN  Min(Pct(98), Pct(40) + high * Pct(20) + (Len(signals) - high) * Pct(8))

detectSynthID(img) ==
    LET signals == AsciiSignals(img) \o MetaSignals(img) \o ChunkSignals(img)
    IN  [detected   |-> signals # <<>>,
         confidence |-> SynthIDConfidence(signals),
         signals    |-> signals]

(* --------------------------- detectMetadata ---------------------------- *)

\* The values of the model that some pattern of AI_SOFTWARE_PATTERNS matches.
AI_SOFTWARE_PATTERNS == {"Midjourney", "Imagen"}

\* The values of the model that some pattern of AI_PARAM_PATTERNS matches.
AI_PARAM_PATTERNS == {"Steps: 20, Sampler: Euler a", "negative_prompt: blurry"}

\* The values /\bai[.\-\s]?generated\b/i or /\bsynthetically\s+generated\b/i match.
DeclarationTexts == {"AI-generated image"}

QuantizationMarker ==
    "JPEG quantization table is abnormally uniform (possible AI generation)"

JUMBFMarker == "JUMBF metadata container detected"

C2PAMarker == "C2PA Content Credentials detected (may include SynthID)"

GenerationParamsMarker == "Generation parameters detected in metadata"

\* The first try block: the markers read from the parsed tags.
TagMarkers(img) ==
    IF ParseThrows(img) \/ ExifrParse(img) = {} THEN <<>>
    ELSE LET meta == ExifrParse(img)
             dst  == Tag(meta, <<"DigitalSourceType", "digitalSourceType">>)
             textFields ==
                 <<<<"Software", Tag(meta, <<"Software", "software">>)>>,
                   <<"CreatorTool", Tag(meta, <<"CreatorTool", "creatortool">>)>>,
                   <<"Creator", Tag(meta, <<"Creator", "Artist", "Author">>)>>>>
             descNames == <<"ImageDescription", "Description", "UserComment", "Comment">>
             descFields ==
                 Flatten([i \in 1..Len(descNames) |->
                     Opt(Tag(meta, <<descNames[i]>>) # "", Tag(meta, <<descNames[i]>>))])
             blob == {textFields[i][2] : i \in 1..3} \cup Range(descFields)
         IN  (IF dst = "trainedAlgorithmicMedia"
              THEN <<"DigitalSourceType: trainedAlgorithmicMedia (AI-generated indicator)">>
              ELSE Opt(dst = "compositeSynthetic",
                       "DigitalSourceType: compositeSynthetic (synthetic composite)"))
             \o Flatten([i \in 1..3 |->
                    Opt(textFields[i][2] \in AI_SOFTWARE_PATTERNS,
                        textFields[i][1] \o ": \"" \o textFields[i][2] \o "\"")])
             \o Flatten([i \in 1..Len(descFields) |->
                    Opt(descFields[i] \in AI_PARAM_PATTERNS, GenerationParamsMarker)])
             \o Opt(blob \cap DeclarationTexts # {},
                    "Explicit AI-generation declaration found in metadata")

\* The second try block: the container identifiers in the decoded bytes.
ContainerMarkers(img) ==
    Opt("c2pa" \in Ascii(img), C2PAMarker)
        \o Opt("jumb" \in Ascii(img) \/ "jumd" \in Ascii(img), JUMBFMarker)

\* The JPEG quantization-table heuristic.
QuantizationMarkers(img) == Opt(IsJPEG(img) /\ UniformDQT \in img, QuantizationMarker)

\* m => !m.includes("quantization table") && !m.includes("JUMBF")
StrongMarkers(markers) ==
    Filter(markers, Range(markers) \ {QuantizationMarker, JUMBFMarker})

MetadataConfidence(markers) ==
    IF markers = <<>> THEN 0
    ELSE LET strong == Len(StrongMarkers(markers))
         IN  Min(Pct(95), Pct(50) + strong * Pct(15) + (Len(markers) - strong) * Pct(5))

detectMetadata(img) ==
    LET markers == TagMarkers(img) \o ContainerMarkers(img) \o QuantizationMarkers(img)
    IN  [isAI       |-> markers # <<>>,
         confidence |-> MetadataConfidence(markers),
         markers    |-> markers]

(* ------------------------- runClassifier (local) ----------------------- *)

\* scores.artificial and scores.human as the classifier process may print
\* them: any JSON numbers, not validated by the route. For each of them the
\* double arithmetic of the route and the decimal arithmetic of Boost and
\* clamp give the same tenths (53.5 * 1.1 is 58.85 and rounds to 58.9 in
\* both; 50.5 * 1.1 is 55.550000000000004 as a double and is left out).
LocalArtificial == {Pct(-5), 0, Pct(30), 53500, Pct(95), Pct(120)}

LocalHuman == {Pct(-5), Pct(20), 50040, 50050, Pct(120)}

\* What the process can leave on stdout: a result object with scores, an
\* object with an error field, an object without scores, the JSON values
\* null and 0, or text that is not JSON.
Stdouts ==
    [json : {"result"}, artificial : LocalArtificial, human : LocalHuman]
        \cup [json : {"error", "noscores", "null", "zero", "garbage"},
              artificial : {0}, human : {0}]

\* How execFile ends: the process exits 0, exits non-zero, or is killed at
\* the 120 s timeout.
ExecErrors == {"none", "exit", "timeout"}

Rejected == [status |-> "rejected", value |-> [json |-> "none", artificial |-> 0, human |-> 0]]

\* The execFile callback: the promise runClassifier returns, settled.
runClassifier(err, stdout) ==
    IF err # "none" THEN Rejected
    ELSE IF stdout.json \in {"garbage", "null", "error"} THEN Rejected
    ELSE [status |-> "fulfilled", value |-> stdout]

(* ------------------------ runHFClassifier (remote) --------------------- *)

HFLabels == {"artificial", "Human", "cat"}

\* pred.label.toLowerCase()
toLowerCase(label) == IF label = "Human" THEN "human" ELSE label

\* Scores of single predictions, in 1/10000.
HFScores == {3, 3000, 10000}

Predictions == [label : HFLabels, score : HFScores]

RECURSIVE SeqsUpTo(_, _)
SeqsUpTo(S, n) ==
    IF n = 0 THEN {<<>>}
    ELSE LET P == SeqsUpTo(S, n - 1)
         IN  P \cup {Append(q, x) : q \in {r \in P : Len(r) = n - 1}, x \in S}

\* What hfClient.imageClassification can do: answer with a list of
\* predictions, or throw.
HFResponses ==
    [throws : {FALSE}, results : SeqsUpTo(Predictions, MaxPreds)]
        \cup [throws : {TRUE}, results : {<<>>}]

RECURSIVE BucketSum(_, _)
BucketSum(results, bucket) ==
    IF results = <<>> THEN 0
    ELSE (IF toLowerCase(Head(results).label) \in bucket THEN Head(results).score ELSE 0)
         + BucketSum(Tail(results), bucket)

\* if (fakeScore === 0 && realScore > 0) fakeScore = 1 - realScore;
\* else if (realScore === 0 && fakeScore > 0) realScore = 1 - fakeScore;
Complement(fakeScore, realScore) ==
    IF fakeScore = 0 /\ realScore > 0
    THEN [fakeScore |-> 10000 - realScore, realScore |-> realScore]
    ELSE IF realScore = 0 /\ fakeScore > 0
    THEN [fakeScore |-> fakeScore, realScore |-> 10000 - fakeScore]
    ELSE [fakeScore |-> fakeScore, realScore |-> realScore]

\* The value the promise of runHFClassifier is fulfilled with: it never
\* rejects.
runHFClassifier(resp) ==
    IF resp.throws
    THEN [fakeScore |-> 0, realScore |-> 0, error |-> TRUE]
    ELSE LET c == Complement(BucketSum(resp.results, {"artificial", "ai", "fake"}),
                             BucketSum(resp.results, {"human", "real"}))
         IN  [fakeScore |-> c.fakeScore, realScore |-> c.realScore, error |-> FALSE]

(* ------------------------------ responses ------------------------------ *)

NoResponse ==
    [status |-> 0, verdict |-> "none", confidence |-> 0, artificial |-> 0, human |-> 0,
     detectionMethod |-> "none", metadataMarkers |-> <<>>]

\* NextResponse.json({ error }, { status })
ErrorResponse(status) == [NoResponse EXCEPT !.status = status]

\* NextResponse.json({ verdict, confidence, scores, detectionMethod,
\* metadataMarkers }): metadataMarkers = <<>> stands for the omitted field.
VerdictResponse(verdict, confidence, artificial, human, method, markers) ==
    [status |-> 200, verdict |-> verdict, confidence |-> confidence,
     artificial |-> artificial, human |-> human,
     detectionMethod |-> method, metadataMarkers |-> markers]

IsVerdict(r) == r.status = 200

(* ----------------------- POST: the phase decisions --------------------- *)

\* Mutant: the watermark short circuit is lost.
Phase1Terminal_Never(synthID) == FALSE

\* Phase 1 is terminal when the watermark detector detects.
Phase1Terminal(synthID) == synthID.detected

\* Mutant: the + 5 without the cap at 99.
Phase1Confidence_Uncapped(synthID, metadata) ==
    IF metadata.isAI
    THEN Max(synthID.confidence, metadata.confidence) + Pct(5)
    ELSE synthID.confidence

\* const finalConf = metadataResult.isAI ? Math.min(99, Math.max(...) + 5) : ...
Phase1Confidence(synthID, metadata) ==
    IF metadata.isAI
    THEN Min(Pct(99), Max(synthID.confidence, metadata.confidence) + Pct(5))
    ELSE synthID.confidence

Phase1Response(synthID, metadata) ==
    LET finalConf == Phase1Confidence(synthID, metadata)
    IN  VerdictResponse("fake", finalConf, finalConf, Round1(Pct(100) - finalConf),
                        IF metadata.isAI THEN "synthid+metadata" ELSE "synthid",
                        Dedup(synthID.signals \o metadata.markers))

strongMetadataCount(metadata) == Len(StrongMarkers(metadata.markers))

\* Phase 2 is terminal on two or more strong markers.
Phase2Terminal(metadata) == strongMetadataCount(metadata) >= 2

\* The metadata-only verdict of Phase 2 and of the Phase 3 fallback.
MetadataResponse(metadata) ==
    VerdictResponse("fake", metadata.confidence, metadata.confidence,
                    Round1(Pct(100) - metadata.confidence), "metadata", metadata.markers)

(* ----------------------- POST: Phase 3 and Phase 4 --------------------- *)

\* const local = localResult.status === "fulfilled" ? localResult.value : null,
\* tested as a boolean: the JSON value 0 is falsy.
LocalPresent(local) == local.status = "fulfilled" /\ local.value.json # "zero"

\* hf && !hf.error
HFPresent(hf) == hf.status = "fulfilled" /\ ~ hf.value.error

\* Mutant: if (!local && !hf), the error flag of the remote result ignored.
BothFailed_IgnoresError(local, hf) == ~ LocalPresent(local) /\ hf.status # "fulfilled"

\* if (!local && (!hf || hf.error))
BothFailed(local, hf) == ~ LocalPresent(local) /\ ~ HFPresent(hf)

\* local.scores.artificial throws a TypeError when the object has no scores.
CombineThrows(local) == LocalPresent(local) /\ local.value.json = "noscores"

localFakePct(local) == IF LocalPresent(local) THEN local.value.artificial ELSE 0

localHumanPct(local) == IF LocalPresent(local) THEN local.value.human ELSE Pct(100)

hfFakePct(hf) == IF HFPresent(hf) THEN FractionToPct(hf.value.fakeScore) ELSE 0

hfHumanPct(hf) == IF HFPresent(hf) THEN FractionToPct(hf.value.realScore) ELSE Pct(100)

\* Mutant: if (hfFakePct >= localFakePct), a tie going to the remote model.
RemoteDominates_OnTie(local, hf) == hfFakePct(hf) >= localFakePct(local)

\* if (hfFakePct > localFakePct)
RemoteDominates(local, hf) == hfFakePct(hf) > localFakePct(local)

\* The adopted pair and its model, before the boost.
Dominant(local, hf) ==
    IF RemoteDominates(local, hf)
    THEN [dominantModel |-> "ai-image-detector",
          artificialPct |-> hfFakePct(hf), humanPct |-> hfHumanPct(hf)]
    ELSE [dominantModel |-> "deepfake-detector",
          artificialPct |-> localFakePct(local), humanPct |-> localHumanPct(local)]

\* Mutant: the label never leaves its initial value.
DetectionMethod_Never(metadata) == "ai-forensics"

\* if (metadataResult.isAI) { detectionMethod = "combined"; ... }
DetectionMethod(metadata) == IF metadata.isAI THEN "combined" ELSE "ai-forensics"

\* if (artificialPct > humanPct) inside the metadata branch
BoostApplies(metadata, d) == metadata.isAI /\ d.artificialPct > d.humanPct

\* artificialPct = Math.min(99.9, artificialPct * 1.1);
\* humanPct = Math.round((100 - artificialPct) * 10) / 10;
\* The product is taken in exact decimal arithmetic: every score of the
\* model is a multiple of 0.01 %, so 1.1 times it is a whole number of
\* thousandths.
Boost(metadata, d) ==
    IF BoostApplies(metadata, d)
    THEN LET a == Min(99900, (d.artificialPct * 11) \div 10)
         IN  [artificialPct |-> a, humanPct |-> Round1(Pct(100) - a)]
    ELSE [artificialPct |-> d.artificialPct, humanPct |-> d.humanPct]

\* Mutant: the clamp without the rounding.
clamp_Unrounded(n) == Max(0, Min(Pct(100), n))

\* const clamp = (n) => Math.max(0, Math.min(100, Math.round(n * 10) / 10))
clamp(n) == Max(0, Min(Pct(100), Round1(n)))

\* Mutant: finalHuman >= 50 counted as verified.
Verdict_AtFifty(finalHuman) == IF finalHuman >= Pct(50) THEN "verified" ELSE "fake"

\* const verdict = finalHuman > 50 ? "verified" : "fake"
Verdict(finalHuman) == IF finalHuman > Pct(50) THEN "verified" ELSE "fake"

Confidence(verdict, finalArtificial, finalHuman) ==
    IF verdict = "verified" THEN finalHuman ELSE finalArtificial

Phase4Response(metadata, d) ==
    LET b               == Boost(metadata, d)
        finalArtificial == clamp(b.artificialPct)
        finalHuman      == clamp(b.humanPct)
        verdict         == Verdict(finalHuman)
    IN  VerdictResponse(verdict, Confidence(verdict, finalArtificial, finalHuman),
                        finalArtificial, finalHuman,
                        DetectionMethod(metadata), metadata.markers)

\* Mutant: no metadata fallback when both adapters failed.
Phase3Response_NoFallback(local, hf, metadata) ==
    IF BothFailed(local, hf) THEN ErrorResponse(503)
    ELSE IF CombineThrows(local) THEN ErrorResponse(500)
    ELSE Phase4Response(metadata, Dominant(local, hf))

\* Everything after the join, to the response.
Phase3Response(local, hf, metadata) ==
    IF BothFailed(local, hf)
    THEN (IF metadata.isAI THEN MetadataResponse(metadata) ELSE ErrorResponse(503))
    ELSE IF CombineThrows(local) THEN ErrorResponse(500)
    ELSE Phase4Response(metadata, Dominant(local, hf))

(* ------------------------------ the state ------------------------------ *)

VARIABLES
    req,             \* the request: file present, file.size, file.type, the bytes
    pc,              \* where the POST handler is
    synthIDResult,   \* const synthIDResult
    metadataResult,  \* const metadataResult
    tmpPath,         \* const tmpPath
    tmpFiles,        \* the paths that exist in os.tmpdir()
    local,           \* the promise of runClassifier(tmpPath).finally(unlink)
    hf,              \* the promise of runHFClassifier(buffer, file.type)
    dominant,        \* dominantModel and the pair adopted before the boost
    calls,           \* how often each detector and adapter was invoked
    response,        \* the response returned
    clock,           \* Date.now(), in milliseconds
    disk,            \* os.tmpdir() shared by concurrent handlers: the files
    handlers,        \* the concurrent POST handlers, each in Phase 3
    answer,          \* what hfClient.imageClassification did, when recorded
    scan,            \* a detector's loop over the buffer, byte by byte
    scanner          \* the Scanner component in the browser and its scans

\* The state of concurrent handlers; one handler alone leaves it untouched.
conc == <<clock, disk, handlers>>

vars ==
    <<req, pc, synthIDResult, metadataResult, tmpPath, tmpFiles, local, hf,
      dominant, calls, response, clock, disk, handlers, answer, scan, scanner>>

\* The requests: every combination of file, size and type without evidence
\* in the bytes, and every image of Images under a declared type.
Sizes == {1, MAX_UPLOAD_BYTES, MAX_UPLOAD_BYTES + 1}

Types == ALLOWED_MIME_TYPES \cup {"image/gif"}

Requests ==
    [file : BOOLEAN, size : Sizes, type : Types, img : {{}}]
        \cup {[file |-> TRUE, size |-> 1,
               type |-> IF IsPNG(img) THEN "image/png" ELSE "image/jpeg",
               img |-> img] : img \in Images}

NoSynthID == [detected |-> FALSE, confidence |-> 0, signals |-> <<>>]

NoMetadata == [isAI |-> FALSE, confidence |-> 0, markers |-> <<>>]

Idle == [status |-> "idle", value |-> [json |-> "none", artificial |-> 0, human |-> 0]]

HFIdle == [status |-> "idle", value |-> [fakeScore |-> 0, realScore |-> 0, error |-> FALSE]]

NoDominant == [dominantModel |-> "none", artificialPct |-> 0, humanPct |-> 0]

NoCalls == [synthID |-> 0, metadata |-> 0, writeFile |-> 0, local |-> 0, remote |-> 0]

NoAnswer == [throws |-> FALSE, results |-> <<>>]

\* The chunk scan before it starts: the buffer, what it was built from, the
\* loop's offset and signals, and what has been read so far: probe is the
\* highest index the signature test read, highest the highest index the
\* loop read, sliceEnd the furthest end a slice asked for, longest the most
\* bytes decoded from one chunk, previous the offset before the last
\* iteration.
NoScan ==
    [pc |-> "idle", bytes |-> <<>>, layout |-> <<>>, cut |-> 0, offset |-> 0,
     signals |-> <<>>, probe |-> -1, highest |-> -1, sliceEnd |-> 0,
     longest |-> 0, iterations |-> 0, previous |-> 0, exit |-> "none"]

\* The Scanner component as mounted: its state hooks, the controller ref
\* (0 for null, else the number of the scan whose controller it holds), the
\* scans started so far, and whether reset() was the last thing the user
\* did to the file.
NoScanner ==
    [file |-> FALSE, isScanning |-> FALSE, result |-> "null", confidence |-> 0,
     scores |-> <<0, 0>>, scanError |-> "null", controllerRef |-> 0,
     scans |-> <<>>, afterReset |-> FALSE]

Init ==
    /\ req \in Requests
    /\ pc = "validate"
    /\ synthIDResult = NoSynthID
    /\ metadataResult = NoMetadata
    /\ tmpPath = "none"
    /\ tmpFiles = {}
    /\ local = Idle
    /\ hf = HFIdle
    /\ dominant = NoDominant
    /\ calls = NoCalls
    /\ response = NoResponse
    /\ clock = 0
    /\ disk = {}
    /\ handlers = <<>>
    /\ answer = NoAnswer
    /\ scan = NoScan
    /\ scanner = NoScanner

\* return NextResponse.json(...)
Respond(r) == response' = r /\ pc' = "done"

\* Mutant: the type check ahead of the size check.
Validation_TypeFirst(r) ==
    IF ~ r.file THEN 400
    ELSE IF r.type \notin ALLOWED_MIME_TYPES THEN 415
    ELSE IF r.size > MAX_UPLOAD_BYTES THEN 413
    ELSE 0

\* Lines 322-336: the three checks, in order.
Validation(r) ==
    IF ~ r.file THEN 400
    ELSE IF r.size > MAX_UPLOAD_BYTES THEN 413
    ELSE IF r.type \notin ALLOWED_MIME_TYPES THEN 415
    ELSE 0

Validate ==
    /\ pc = "validate"
    /\ IF Validation(req) # 0
       THEN Respond(ErrorResponse(Validation(req)))
       ELSE pc' = "phase1" /\ UNCHANGED response
    /\ UNCHANGED <<req, synthIDResult, metadataResult, tmpPath, tmpFiles, local, hf,
                   dominant, calls, conc, answer, scan, scanner>>

\* Phase 1: detectSynthID and, when it detects, detectMetadata and the
\* watermark verdict.
Phase1 ==
    /\ pc = "phase1"
    /\ synthIDResult' = detectSynthID(req.img)
    /\ IF Phase1Terminal(synthIDResult')
       THEN /\ metadataResult' = detectMetadata(req.img)
            /\ calls' = [calls EXCEPT !.synthID = @ + 1, !.metadata = @ + 1]
            /\ Respond(Phase1Response(synthIDResult', metadataResult'))
       ELSE /\ calls' = [calls EXCEPT !.synthID = @ + 1]
            /\ pc' = "phase2"
            /\ UNCHANGED <<metadataResult, response>>
    /\ UNCHANGED <<req, tmpPath, tmpFiles, local, hf, dominant, conc, answer, scan, scanner>>

\* Phase 2: detectMetadata and the strong-metadata short circuit.
Phase2 ==
    /\ pc = "phase2"
    /\ metadataResult' = detectMetadata(req.img)
    /\ calls' = [calls EXCEPT !.metadata = @ + 1]
    /\ IF Phase2Terminal(metadataResult')
       THEN Respond(MetadataResponse(metadataResult'))
       ELSE pc' = "phase3" /\ UNCHANGED response
    /\ UNCHANGED <<req, synthIDResult, tmpPath, tmpFiles, local, hf, dominant, conc, answer, scan, scanner>>

\* const ext = ...
Ext(type) ==
    IF type = "image/png" THEN "png" ELSE IF type = "image/webp" THEN "webp" ELSE "jpg"

\* path.join(tmpdir(), `verilens-${Date.now()}.${ext}`)
TmpPath(now, ext) == "verilens-" \o ToString(now) \o "." \o ext

\* What await writeFile(tmpPath, ...) can do: write the file, or throw with
\* or without leaving a file behind.
WriteOutcomes == {"written", "throws", "throws-partial"}

\* Phase 3, to the suspension at Promise.allSettled: the temporary file is
\* written and both adapters are started; writeFile throwing ends in the
\* catch-all.
Phase3Start ==
    /\ pc = "phase3"
    /\ \E w \in WriteOutcomes :
        /\ tmpPath' = TmpPath(0, Ext(req.type))
        /\ tmpFiles' = IF w = "throws" THEN tmpFiles ELSE tmpFiles \cup {tmpPath'}
        /\ IF w = "written"
           THEN /\ local' = [Idle EXCEPT !.status = "pending"]
                /\ hf' = [HFIdle EXCEPT !.status = "pending"]
                /\ calls' = [calls EXCEPT !.writeFile = @ + 1, !.local = @ + 1,
                                          !.remote = @ + 1]
                /\ pc' = "await"
                /\ UNCHANGED response
           ELSE /\ calls' = [calls EXCEPT !.writeFile = @ + 1]
                /\ Respond(ErrorResponse(500))
                /\ UNCHANGED <<local, hf>>
    /\ UNCHANGED <<req, synthIDResult, metadataResult, dominant, conc, answer, scan, scanner>>

\* Mutant: a rejected classifier run is started once more.
LocalSettles_Retry ==
    /\ pc = "await"
    /\ local.status = "pending"
    /\ \E err \in ExecErrors, stdout \in Stdouts :
        IF runClassifier(err, stdout).status = "rejected" /\ calls.local < 2
        THEN /\ calls' = [calls EXCEPT !.local = @ + 1]
             /\ UNCHANGED local
        ELSE /\ local' = runClassifier(err, stdout)
             /\ UNCHANGED calls
    /\ tmpFiles' = tmpFiles \ {tmpPath}
    /\ UNCHANGED <<req, pc, synthIDResult, metadataResult, tmpPath, hf, dominant,
                   response, conc, answer, scan, scanner>>

\* The classifier process ends (or is killed at the timeout); the finally
\* handler unlinks the temporary file before the promise settles.
LocalSettles ==
    /\ pc = "await"
    /\ local.status = "pending"
    /\ \E err \in ExecErrors, stdout \in Stdouts : local' = runClassifier(err, stdout)
    /\ tmpFiles' = tmpFiles \ {tmpPath}
    /\ UNCHANGED <<req, pc, synthIDResult, metadataResult, tmpPath, hf, dominant,
                   calls, response, conc, answer, scan, scanner>>

\* The remote call answers or throws; runHFClassifier fulfils either way.
RemoteSettles ==
    /\ pc = "await"
    /\ hf.status = "pending"
    /\ \E resp \in HFResponses :
        hf' = [status |-> "fulfilled", value |-> runHFClassifier(resp)]
    /\ UNCHANGED <<req, pc, synthIDResult, metadataResult, tmpPath, tmpFiles, local,
                   dominant, calls, response, conc, answer, scan, scanner>>

\* Mutant: Promise.all, which resumes at the first rejection.
AllSettled_FirstRejection(l, h) ==
    l.status = "rejected" \/ (l.status # "pending" /\ h.status # "pending")

\* await Promise.allSettled([...]) resumes once neither promise is pending.
AllSettled(l, h) == l.status # "pending" /\ h.status # "pending"

\* The rest of the handler: the both-failed branch, the dominant model, the
\* boost and the Phase 4 verdict.
Join ==
    /\ pc = "await"
    /\ AllSettled(local, hf)
    /\ dominant' = IF BothFailed(local, hf) \/ CombineThrows(local)
                   THEN dominant ELSE Dominant(local, hf)
    /\ Respond(Phase3Response(local, hf, metadataResult))
    /\ UNCHANGED <<req, synthIDResult, metadataResult, tmpPath, tmpFiles, local, hf,
                   calls, conc, answer, scan, scanner>>

Next ==
    \/ Validate
    \/ Phase1
    \/ Phase2
    \/ Phase3Start
    \/ LocalSettles
    \/ RemoteSettles
    \/ Join

Spec == Init /\ [][Next]_vars

\* The handler's own steps run to completion on the event loop, and the
\* classifier process is killed at the 120 s timeout of execFile, so its
\* promise settles. Nothing bounds hfClient.imageClassification: no
\* timeout and no abort signal is passed, so no fairness is stated for the
\* remote call.
SpecFair ==
    /\ Spec
    /\ WF_vars(Validate)
    /\ WF_vars(Phase1)
    /\ WF_vars(Phase2)
    /\ WF_vars(Phase3Start)
    /\ WF_vars(LocalSettles)
    /\ WF_vars(Join)

(* ------------------------- concurrent handlers ------------------------- *)

\* Two POST handlers in the same server process, both past Phase 2. Phases
\* 1 and 2 and the remote call work on the request's own buffer; the
\* temporary file in os.tmpdir() is what the handlers share.

\* The milliseconds the clock may advance while the handlers run.
MaxClock == 2

Handlers == {"A", "B"}

\* writeFile(tmpPath, bytes): creates the file or replaces its contents.
Write(d, path, bytes) ==
    {f \in d : f.path # path} \cup {[path |-> path, bytes |-> bytes]}

\* unlink(tmpPath).catch(() => {}): a missing file is not an error.
Unlink(d, path) == {f \in d : f.path # path}

\* What the classifier process finds when it opens imagePath.
Open(d, path) ==
    IF \E f \in d : f.path = path
    THEN (CHOOSE f \in d : f.path = path).bytes
    ELSE "ENOENT"

InitTwo ==
    /\ req = [file |-> TRUE, size |-> 1, type |-> "image/png", img |-> {}]
    /\ pc = "concurrent"
    /\ synthIDResult = NoSynthID
    /\ metadataResult = NoMetadata
    /\ tmpPath = "none"
    /\ tmpFiles = {}
    /\ local = Idle
    /\ hf = HFIdle
    /\ dominant = NoDominant
    /\ calls = NoCalls
    /\ response = NoResponse
    /\ clock = 0
    /\ disk = {}
    /\ answer = NoAnswer
    /\ scan = NoScan
    /\ scanner = NoScanner
    /\ handlers \in [Handlers ->
            [pc : {"phase3"}, type : ALLOWED_MIME_TYPES, tmpPath : {"none"},
             opened : {"not-yet"}, classified : {"none"}]]

single ==
    <<req, pc, synthIDResult, metadataResult, tmpPath, tmpFiles, local, hf,
      dominant, calls, response, answer, scan, scanner>>

\* Date.now() moves on.
Tick ==
    /\ clock < MaxClock
    /\ clock' = clock + 1
    /\ UNCHANGED <<disk, handlers, single>>

\* Lines 380-388 of handler h, to the suspension at Promise.allSettled.
WriteTmp(h) ==
    /\ handlers[h].pc = "phase3"
    /\ LET p == TmpPath(clock, Ext(handlers[h].type))
       IN  /\ disk' = Write(disk, p, h)
           /\ handlers' = [handlers EXCEPT ![h].pc = "await", ![h].tmpPath = p]
    /\ UNCHANGED <<clock, single>>

\* The classifier process of handler h opens its imagePath argument.
ClassifierOpens(h) ==
    /\ handlers[h].pc = "await"
    /\ handlers[h].opened = "not-yet"
    /\ handlers' = [handlers EXCEPT ![h].opened = Open(disk, handlers[h].tmpPath)]
    /\ UNCHANGED <<clock, disk, single>>

\* The classifier process of handler h ends; finally unlinks tmpPath. The
\* promise carries the scores of the bytes the process opened, and is
\* rejected when it opened none.
ClassifierSettles(h) ==
    /\ handlers[h].pc = "await"
    /\ disk' = Unlink(disk, handlers[h].tmpPath)
    /\ handlers' = [handlers EXCEPT ![h].pc = "settled",
                                    ![h].classified = handlers[h].opened]
    /\ UNCHANGED <<clock, single>>

\* Handler h resumes after Promise.allSettled and returns its response.
Returns(h) ==
    /\ handlers[h].pc = "settled"
    /\ handlers' = [handlers EXCEPT ![h].pc = "done"]
    /\ UNCHANGED <<clock, disk, single>>

NextTwo ==
    \/ Tick
    \/ \E h \in Handlers : WriteTmp(h)
    \/ \E h \in Handlers : ClassifierOpens(h)
    \/ \E h \in Handlers : ClassifierSettles(h)
    \/ \E h \in Handlers : Returns(h)

SpecTwo == InitTwo /\ [][NextTwo]_vars

(* --------------------------- the remote adapter ------------------------ *)

\* runHFClassifier on its own, over answers in which every label occurs at
\* most once, with scores at the ends of the range and at a rounding tie:
\* 0, 0.0005 (0.05 %), 0.3 and 1. On these the double arithmetic of the
\* route and the arithmetic of the model give the same tenths.
FineScores == {0, 5, 3000, 10000}

OncePerLabel ==
    {q \in SeqsUpTo([label : HFLabels, score : FineScores], Cardinality(HFLabels)) :
        \A i, j \in DOMAIN q : i # j => q[i].label # q[j].label}

FineResponses ==
    [throws : {FALSE}, results : OncePerLabel] \cup [throws : {TRUE}, results : {<<>>}]

InitRemote ==
    /\ req = [file |-> TRUE, size |-> 1, type |-> "image/png", img |-> {}]
    /\ pc = "remote"
    /\ synthIDResult = NoSynthID
    /\ metadataResult = NoMetadata
    /\ tmpPath = "none"
    /\ tmpFiles = {}
    /\ local = Idle
    /\ hf = [HFIdle EXCEPT !.status = "pending"]
    /\ dominant = NoDominant
    /\ calls = NoCalls
    /\ response = NoResponse
    /\ clock = 0
    /\ disk = {}
    /\ handlers = <<>>
    /\ answer \in FineResponses
    /\ scan = NoScan
    /\ scanner = NoScanner

\* The remote call answers or throws, and runHFClassifier fulfils its
\* promise.
RemoteAnswers ==
    /\ pc = "remote"
    /\ hf' = [status |-> "fulfilled", value |-> runHFClassifier(answer)]
    /\ pc' = "scored"
    /\ UNCHANGED <<req, synthIDResult, metadataResult, tmpPath, tmpFiles, local,
                   dominant, calls, response, conc, answer, scan, scanner>>

SpecRemote == InitRemote /\ [][RemoteAnswers]_vars

(* --------------------------- the PNG chunk scan ------------------------ *)

\* Step 3 of detectSynthID over buffers of bytes: an 8-byte signature and up
\* to MaxChunks chunks (length, type, payload, CRC) whose declared length
\* may be wrong, cut short by some bytes.
MaxChunks == 2

PNGSignature == <<137, 80, 78, 71, 13, 10, 26, 10>>

JPEGStart == <<255, 216, 255, 224, 0, 16, 74, 70>>

\* Chunk types as bytes, and String.fromCharCode of them.
TypeBytes == {<<116, 69, 88, 116>>, <<122, 84, 88, 116>>, <<73, 68, 65, 84>>}

fromCharCode(t) ==
    CASE t = <<116, 69, 88, 116>>  -> "tEXt"
      [] t = <<105, 84, 88, 116>>  -> "iTXt"
      [] t = <<122, 84, 88, 116>>  -> "zTXt"
      [] OTHER                     -> "other"

\* The ASCII bytes of the strings the scan searches for.
CharCodes(str) ==
    CASE str = "synthid"   -> <<115, 121, 110, 116, 104, 105, 100>>
      [] str = "google:watermark" ->
            <<103, 111, 111, 103, 108, 101, 58, 119, 97, 116, 101, 114, 109, 97, 114, 107>>
      [] str = "ai:watermark" ->
            <<97, 105, 58, 119, 97, 116, 101, 114, 109, 97, 114, 107>>
      [] str = "c2pa"      -> <<99, 50, 112, 97>>
      [] str = "content-credentials" ->
            <<99, 111, 110, 116, 101, 110, 116, 45, 99, 114, 101, 100, 101, 110,
              116, 105, 97, 108, 115>>
      [] str = "google-ai" -> <<103, 111, 111, 103, 108, 101, 45, 97, 105>>
      [] str = "c2pa.hash.synthid" ->
            <<99, 50, 112, 97, 46, 104, 97, 115, 104, 46, 115, 121, 110, 116, 104,
              105, 100>>
      [] str = "steg.synthid" ->
            <<115, 116, 101, 103, 46, 115, 121, 110, 116, 104, 105, 100>>
      [] str = "c2pa.soft-binding" ->
            <<99, 50, 112, 97, 46, 115, 111, 102, 116, 45, 98, 105, 110, 100, 105,
              110, 103>>
      [] str = "google"    -> <<103, 111, 111, 103, 108, 101>>
      [] str = "ai"        -> <<97, 105>>
      [] str = "watermark" -> <<119, 97, 116, 101, 114, 109, 97, 114, 107>>

\* Payloads: empty, "C2PA!" and "xsynthid".
Payloads ==
    {<<>>, <<67, 50, 80, 65, 33>>,
     <<120, 115, 121, 110, 116, 104, 105, 100>>}

\* The four bytes of a chunk's length field, big-endian; a negative n
\* stands for the field 2^32 + n, so -1 is FF FF FF FF.
U32(n) ==
    LET m == IF n < 0 THEN -n - 1 ELSE n
        b == <<m \div 16777216, (m \div 65536) % 256, (m \div 256) % 256, m % 256>>
    IN  IF n < 0 THEN [i \in 1..4 |-> 255 - b[i]] ELSE b

\* A chunk as laid out in the file; declared is its length field.
ChunkBytes(c) == U32(c.declared) \o c.type \o c.payload \o <<0, 0, 0, 0>>

\* The length field is right, off by one either way, or 0xFFFFFFFF.
DeclaredLengths(p) ==
    {Len(p), Len(p) + 1, -1} \cup (IF p = <<>> THEN {} ELSE {Len(p) - 1})

ChunkShapes ==
    UNION {{[type |-> t, payload |-> p, declared |-> n] : n \in DeclaredLengths(p)} :
              t \in TypeBytes, p \in Payloads}

\* A payload of 4097 bytes with "c2pa" in its first or in its last four.
LongPayloads ==
    {<<99, 50, 112, 97>> \o [i \in 1..4093 |-> 32],
     [i \in 1..4093 |-> 32] \o <<99, 50, 112, 97>>}

Layouts ==
    SeqsUpTo(ChunkShapes, MaxChunks)
        \cup {<<[type |-> <<116, 69, 88, 116>>, payload |-> p, declared |-> Len(p)]>> :
                  p \in LongPayloads}

\* How many bytes are missing at the end of the file.
Cuts == {0, 1, 5}

FileBytes(start, layout, cut) ==
    LET full == start \o Flatten([i \in DOMAIN layout |-> ChunkBytes(layout[i])])
    IN  SubSeq(full, 1, Max(0, Len(full) - cut))

\* What an indexed read past the end of a typed array yields.
Undefined == -1

\* bytes[i], with the indices of the code (from 0).
At(bytes, i) == IF i >= 0 /\ i < Len(bytes) THEN bytes[i + 1] ELSE Undefined

\* The operand of a shift: undefined converts to 0.
ToInt32(b) == IF b = Undefined THEN 0 ELSE b

\* Lengths of 2^30 and more are kept as 2^30: every buffer is shorter, so
\* each comparison of the code comes out as it does with the exact number.
Huge == 1073741824

\* The length field at offset, as the unsigned 32-bit number >>> 0 makes it.
chunkLen(bytes, offset) ==
    IF ToInt32(At(bytes, offset)) >= 64 THEN Huge
    ELSE ToInt32(At(bytes, offset)) * 16777216 + ToInt32(At(bytes, offset + 1)) * 65536
            + ToInt32(At(bytes, offset + 2)) * 256 + ToInt32(At(bytes, offset + 3))

\* Mutant: the bounds of a chunk are never validated.
Overruns_Never(bytes, offset, len) == FALSE

\* The validation of a chunk's bounds before its data is read.
Overruns(bytes, offset, len) ==
    \/ len < 0
    \/ offset + 8 + len > Len(bytes)
    \/ offset + 12 + len > Len(bytes)

\* Mutant: the whole payload is decoded.
SliceLength_Uncapped(len) == len

\* How many bytes of a text chunk's payload are decoded.
SliceLength(len) == Min(len, 4096)

\* bytes.slice(begin, end): the end is clamped to the buffer.
slice(bytes, begin, end) == SubSeq(bytes, begin + 1, Min(end, Len(bytes)))

\* chunkData.toLowerCase(), byte by byte.
LowerBytes(data) ==
    [i \in 1..Len(data) |-> IF data[i] >= 65 /\ data[i] <= 90 THEN data[i] + 32 ELSE data[i]]

includes(data, kw) ==
    \E i \in 1..(Len(data) - Len(kw) + 1) : SubSeq(data, i, i + Len(kw) - 1) = kw

chunkType(bytes, offset) ==
    fromCharCode(<<At(bytes, offset + 4), At(bytes, offset + 5),
                   At(bytes, offset + 6), At(bytes, offset + 7)>>)

\* One signal per keyword the decoded payload contains, in keyword order.
KeywordSignals(type, chunkData) ==
    Flatten([j \in 1..Len(keywords) |->
                Opt(includes(LowerBytes(chunkData), CharCodes(keywords[j])),
                    ChunkLabel(type, keywords[j]))])

\* The spellings /google[:\-]ai[:\-]watermark/ matches.
GoogleWatermark ==
    {CharCodes("google") \o <<a>> \o CharCodes("ai") \o <<b>> \o CharCodes("watermark") :
        a \in {58, 45}, b \in {58, 45}}

\* Step 1 over bytes: what the signals hold when the chunk scan starts (the
\* buffers here hold no EXIF or XMP segment, so step 2 adds nothing).
BytePatternSignals(bytes) ==
    LET ascii == LowerBytes(bytes)
    IN  Flatten([i \in 1..Len(c2paPatterns) |->
            Opt(IF i = 5 THEN \E g \in GoogleWatermark : includes(ascii, g)
                         ELSE includes(ascii, CharCodes(c2paPatterns[i][1])),
                c2paPatterns[i][2])])

\* The buffers the scan is run over: too short for the signature test, a
\* JPEG, and PNGs of every layout and cut.
ScanInputs ==
    {[bytes |-> b, layout |-> <<>>, cut |-> 0] : b \in {<<>>, <<137>>, JPEGStart}}
        \cup {[bytes |-> FileBytes(PNGSignature, l, c), layout |-> l, cut |-> c] :
                 l \in Layouts, c \in Cuts}

InitScan ==
    /\ req = [file |-> TRUE, size |-> 1, type |-> "image/png", img |-> {}]
    /\ pc = "detectSynthID"
    /\ synthIDResult = NoSynthID
    /\ metadataResult = NoMetadata
    /\ tmpPath = "none"
    /\ tmpFiles = {}
    /\ local = Idle
    /\ hf = HFIdle
    /\ dominant = NoDominant
    /\ calls = NoCalls
    /\ response = NoResponse
    /\ clock = 0
    /\ disk = {}
    /\ handlers = <<>>
    /\ answer = NoAnswer
    /\ scan = NoScan
    /\ scanner = NoScanner

parked ==
    <<req, pc, synthIDResult, metadataResult, tmpPath, tmpFiles, local, hf,
      dominant, calls, response, conc, answer, scanner>>

\* detectSynthID is handed a buffer and runs its steps 1 and 2 over it.
ScanBuffer ==
    /\ scan.pc = "idle"
    /\ \E input \in ScanInputs :
          scan' = [scan EXCEPT !.pc = "signature", !.bytes = input.bytes,
                               !.layout = input.layout, !.cut = input.cut,
                               !.signals = BytePatternSignals(input.bytes)]
    /\ UNCHANGED parked

\* if (bytes[0] === 0x89 && bytes[1] === 0x50): bytes[1] is read only when
\* the first comparison holds.
ScanSignature ==
    /\ scan.pc = "signature"
    /\ LET first == At(scan.bytes, 0) = 137
           isPNG == first /\ At(scan.bytes, 1) = 80
       IN  scan' = [scan EXCEPT !.probe = IF first THEN 1 ELSE 0,
                                !.pc = IF isPNG THEN "loop" ELSE "done",
                                !.offset = IF isPNG THEN 8 ELSE 0,
                                !.exit = IF isPNG THEN "none" ELSE "not-png"]
    /\ UNCHANGED parked

\* One iteration of the while loop over a chunk that passes the validation.
ScanChunk ==
    /\ scan.pc = "loop"
    /\ scan.offset + 8 <= Len(scan.bytes)
    /\ LET len  == chunkLen(scan.bytes, scan.offset)
           type == chunkType(scan.bytes, scan.offset)
           text == type \in {"tEXt", "iTXt", "zTXt"}
           end  == scan.offset + 8 + SliceLength(len)
           chunkData == slice(scan.bytes, scan.offset + 8, end)
       IN  /\ ~ Overruns(scan.bytes, scan.offset, len)
           /\ scan' = [scan EXCEPT
                 !.signals = IF text THEN @ \o KeywordSignals(type, chunkData) ELSE @,
                 !.highest = Max(Max(@, scan.offset + 7),
                                 IF text THEN scan.offset + 7 + Len(chunkData) ELSE -1),
                 !.sliceEnd = IF text THEN Max(@, end) ELSE @,
                 !.longest = IF text THEN Max(@, Len(chunkData)) ELSE @,
                 !.iterations = @ + 1,
                 !.previous = scan.offset,
                 !.offset = @ + 12 + len]
    /\ UNCHANGED parked

\* The validation fails: break.
ScanBreak ==
    /\ scan.pc = "loop"
    /\ scan.offset + 8 <= Len(scan.bytes)
    /\ Overruns(scan.bytes, scan.offset, chunkLen(scan.bytes, scan.offset))
    /\ scan' = [scan EXCEPT !.pc = "done", !.exit = "break",
                            !.highest = Max(@, scan.offset + 3)]
    /\ UNCHANGED parked

\* The loop condition fails: fewer than 8 bytes are left.
ScanEnd ==
    /\ scan.pc = "loop"
    /\ scan.offset + 8 > Len(scan.bytes)
    /\ scan' = [scan EXCEPT !.pc = "done", !.exit = "end"]
    /\ UNCHANGED parked

NextScan == ScanBuffer \/ ScanSignature \/ ScanChunk \/ ScanBreak \/ ScanEnd

SpecScan == InitScan /\ [][NextScan]_vars

(* ------------------------ the single-model route ----------------------- *)

\* result.find(p => labels hold p.label.toLowerCase()): the first such
\* prediction, or <<>> for undefined.
find(results, labels) ==
    LET hits == {i \in DOMAIN results : toLowerCase(results[i].label) \in labels}
    IN  IF hits = {} THEN <<>>
        ELSE <<results[CHOOSE i \in hits : \A j \in hits : i <= j]>>

\* The response of the single-model route to what the model call does, for
\* a request that passed validation; an error without a status code is
\* answered with 502.
SingleModelResponse(resp) ==
    IF resp.throws THEN ErrorResponse(502)
    ELSE LET fakePred == find(resp.results, {"fake", "artificial", "ai"})
             realPred == find(resp.results, {"real", "human"})
             found    == IF fakePred # <<>> THEN fakePred[1].score ELSE 0
             foundH   == IF realPred # <<>> THEN realPred[1].score ELSE 0
             isAI     == found > foundH
             artificialScore == IF fakePred = <<>> THEN 10000 - foundH ELSE found
             humanScore == IF realPred = <<>> THEN 10000 - artificialScore ELSE foundH
         IN  IF fakePred = <<>> /\ realPred = <<>> THEN ErrorResponse(422)
             ELSE VerdictResponse(IF isAI THEN "fake" ELSE "verified",
                                  FractionToPct(IF isAI THEN artificialScore ELSE humanScore),
                                  FractionToPct(artificialScore),
                                  FractionToPct(humanScore), "none", <<>>)

InitSingle ==
    /\ req = [file |-> TRUE, size |-> 1, type |-> "image/png", img |-> {}]
    /\ pc = "classify"
    /\ synthIDResult = NoSynthID
    /\ metadataResult = NoMetadata
    /\ tmpPath = "none"
    /\ tmpFiles = {}
    /\ local = Idle
    /\ hf = HFIdle
    /\ dominant = NoDominant
    /\ calls = NoCalls
    /\ response = NoResponse
    /\ clock = 0
    /\ disk = {}
    /\ handlers = <<>>
    /\ answer \in FineResponses
    /\ scan = NoScan
    /\ scanner = NoScanner

\* The model call answers or throws, and the route responds.
SingleModelAnswers ==
    /\ pc = "classify"
    /\ response' = SingleModelResponse(answer)
    /\ pc' = "done"
    /\ UNCHANGED <<req, synthIDResult, metadataResult, tmpPath, tmpFiles, local, hf,
                   dominant, calls, conc, answer, scan, scanner>>

SpecSingle == InitSingle /\ [][SingleModelAnswers]_vars

(* --------------------- the JPEG quantization heuristic ------------------ *)

\* The loop of detectMetadata over buffers of bytes: a JPEG start, up to
\* MaxTables quantization-table segments and some bytes after the last.
MaxTables == 2

\* The 64 entries of a table with one, four or five distinct values.
QuantTable(kind) ==
    [k \in 1..64 |-> CASE kind = "one"  -> 16
                       [] kind = "four" -> 1 + (k % 4)
                       [] kind = "five" -> 1 + (k % 5)]

\* A segment: FF DB, two length bytes, one precision/index byte, the table.
DQTSegment(kind) == <<255, 219, 0, 67, 0>> \o QuantTable(kind)

\* The buffers the heuristic is run over; tail is how many bytes follow the
\* last segment.
QuantInputs ==
    {[bytes  |-> start \o Flatten([j \in DOMAIN t |-> DQTSegment(t[j])])
                       \o [k \in 1..tail |-> 0],
      tables |-> t, tail |-> tail, jpeg |-> start = <<255, 216>>] :
        start \in {<<255, 216>>, <<137, 80>>},
        t \in SeqsUpTo({"one", "four", "five"}, MaxTables),
        tail \in {0, 1, 2, 8}}

\* The heuristic before it starts: the buffer, what it was built from, the
\* loop index, the markers pushed and the indices of the FF DB markers
\* whose table was counted.
NoQuant ==
    [pc |-> "idle", bytes |-> <<>>, tables |-> <<>>, tail |-> 0, jpeg |-> FALSE,
     i |-> 0, markers |-> <<>>, examined |-> <<>>]

InitQuant ==
    /\ req = [file |-> TRUE, size |-> 1, type |-> "image/jpeg", img |-> {}]
    /\ pc = "detectMetadata"
    /\ synthIDResult = NoSynthID
    /\ metadataResult = NoMetadata
    /\ tmpPath = "none"
    /\ tmpFiles = {}
    /\ local = Idle
    /\ hf = HFIdle
    /\ dominant = NoDominant
    /\ calls = NoCalls
    /\ response = NoResponse
    /\ clock = 0
    /\ disk = {}
    /\ handlers = <<>>
    /\ answer = NoAnswer
    /\ scan = NoQuant
    /\ scanner = NoScanner

\* detectMetadata is handed a buffer; the buffers here hold no metadata
\* and no container marker, so the markers are empty when the loop starts.
QuantBuffer ==
    /\ scan.pc = "idle"
    /\ \E input \in QuantInputs :
          scan' = [scan EXCEPT !.pc = "signature", !.bytes = input.bytes,
                               !.tables = input.tables, !.tail = input.tail,
                               !.jpeg = input.jpeg]
    /\ UNCHANGED parked

\* if (bytes[0] === 0xff && bytes[1] === 0xd8)
QuantSignature ==
    /\ scan.pc = "signature"
    /\ scan' = [scan EXCEPT
          !.pc = IF At(scan.bytes, 0) = 255 /\ At(scan.bytes, 1) = 216
                 THEN "loop" ELSE "done"]
    /\ UNCHANGED parked

\* bytes[i] === 0xff && bytes[i + 1] === 0xdb
IsDQT(bytes, i) == At(bytes, i) = 255 /\ At(bytes, i + 1) = 219

\* new Set(Array.from(bytes.slice(tableStart, tableStart + 64))).size
unique(bytes, tableStart) == Cardinality(Range(slice(bytes, tableStart, tableStart + 64)))

\* An iteration at an index that holds no FF DB.
QuantSkip ==
    /\ scan.pc = "loop"
    /\ scan.i < Len(scan.bytes) - 70
    /\ ~ IsDQT(scan.bytes, scan.i)
    /\ scan' = [scan EXCEPT !.i = @ + 1]
    /\ UNCHANGED parked

\* An iteration at an FF DB whose table does not fit or has more than four
\* distinct values: nothing is pushed and the loop goes on.
QuantExamine ==
    /\ scan.pc = "loop"
    /\ scan.i < Len(scan.bytes) - 70
    /\ IsDQT(scan.bytes, scan.i)
    /\ LET tableStart == scan.i + 5
           fits == tableStart + 64 < Len(scan.bytes)
       IN  /\ ~ (fits /\ unique(scan.bytes, tableStart) <= 4)
           /\ scan' = [scan EXCEPT
                 !.examined = IF fits THEN Append(@, scan.i) ELSE @,
                 !.i = @ + 1]
    /\ UNCHANGED parked

\* An iteration at an FF DB whose table has at most four distinct values:
\* the marker is pushed and the loop is left by break.
QuantPush ==
    /\ scan.pc = "loop"
    /\ scan.i < Len(scan.bytes) - 70
    /\ IsDQT(scan.bytes, scan.i)
    /\ LET tableStart == scan.i + 5
       IN  /\ tableStart + 64 < Len(scan.bytes)
           /\ unique(scan.bytes, tableStart) <= 4
           /\ scan' = [scan EXCEPT !.markers = Append(@, QuantizationMarker),
                                   !.examined = Append(@, scan.i),
                                   !.pc = "done"]
    /\ UNCHANGED parked

\* The loop condition i < bytes.length - 70 fails.
QuantEnd ==
    /\ scan.pc = "loop"
    /\ scan.i >= Len(scan.bytes) - 70
    /\ scan' = [scan EXCEPT !.pc = "done"]
    /\ UNCHANGED parked

NextQuant ==
    QuantBuffer \/ QuantSignature \/ QuantSkip \/ QuantExamine \/ QuantPush \/ QuantEnd

SpecQuant == InitQuant /\ [][NextQuant]_vars

(* ------------------------- the Scanner component ----------------------- *)

\* Each action is one task of the browser's event loop with the code it
\* runs to its end; the continuation of a scan whose fetch or body read was
\* aborted runs as a microtask, before the next task.
MaxScans == 2

\* What the server sends: a verdict, an error as JSON, a page that is not
\* JSON, or JSON without a verdict.
Kinds == {"verdict", "error", "not-json", "no-verdict"}

backend ==
    <<req, pc, synthIDResult, metadataResult, tmpPath, tmpFiles, local, hf,
      dominant, calls, response, conc, answer, scan>>

InitScanner ==
    /\ req = [file |-> TRUE, size |-> 1, type |-> "image/png", img |-> {}]
    /\ pc = "browser"
    /\ synthIDResult = NoSynthID
    /\ metadataResult = NoMetadata
    /\ tmpPath = "none"
    /\ tmpFiles = {}
    /\ local = Idle
    /\ hf = HFIdle
    /\ dominant = NoDominant
    /\ calls = NoCalls
    /\ response = NoResponse
    /\ clock = 0
    /\ disk = {}
    /\ handlers = <<>>
    /\ answer = NoAnswer
    /\ scan = NoScan
    /\ scanner = NoScanner

\* The scans whose function is suspended at an await.
Awaiting == {id \in DOMAIN scanner.scans : scanner.scans[id].at \in {"fetch", "json"}}

\* Mutant: a task may run although an aborted scan has not been resumed.
MicrotaskPending_Never == FALSE

\* An aborted scan's promise is rejected and its continuation is queued.
MicrotaskPending == \E id \in Awaiting : scanner.scans[id].aborted

\* catch (err) sets the error unless none was thrown; finally clears the
\* timer and the ref and sets isScanning to false.
Settle(sc, id, error) ==
    [sc EXCEPT !.scanError = IF error = "null" THEN @ ELSE error,
               !.controllerRef = 0,
               !.isScanning = FALSE,
               !.scans[id].at = "done"]

\* handleFileChange and handleDrop, offered while no file is selected.
handleFileChange ==
    /\ ~ MicrotaskPending
    /\ ~ scanner.file
    /\ \E valid \in BOOLEAN :
          scanner' = IF valid
                     THEN [scanner EXCEPT !.file = TRUE, !.result = "null",
                                          !.scanError = "null", !.afterReset = FALSE]
                     ELSE [scanner EXCEPT !.scanError = "Unsupported file type.",
                                          !.afterReset = FALSE]
    /\ UNCHANGED backend

\* startScan, behind the button that is disabled when
\* !file || isScanning || !!result.
startScan ==
    /\ ~ MicrotaskPending
    /\ scanner.file /\ ~ scanner.isScanning /\ scanner.result = "null"
    /\ Len(scanner.scans) < MaxScans
    /\ scanner' = [scanner EXCEPT
          !.isScanning = TRUE, !.result = "null", !.scanError = "null",
          !.controllerRef = Len(scanner.scans) + 1,
          !.scans = Append(@, [at |-> "fetch", aborted |-> FALSE, kind |-> "none"])]
    /\ UNCHANGED backend

\* reset, behind the X button that is shown while a file is selected.
reset ==
    /\ ~ MicrotaskPending
    /\ scanner.file
    /\ scanner' = [scanner EXCEPT
          !.file = FALSE, !.result = "null", !.confidence = 0, !.scores = <<0, 0>>,
          !.scanError = "null", !.isScanning = FALSE, !.afterReset = TRUE,
          !.controllerRef = 0,
          !.scans = IF scanner.controllerRef = 0 THEN @
                    ELSE [@ EXCEPT ![scanner.controllerRef].aborted = TRUE]]
    /\ UNCHANGED backend

\* The timer of a scan fires: controller.abort().
TimeoutFires ==
    /\ ~ MicrotaskPending
    /\ \E id \in Awaiting :
          scanner' = [scanner EXCEPT !.scans[id].aborted = TRUE]
    /\ UNCHANGED backend

\* The continuation of an aborted scan: catch with an AbortError, finally.
AbortRejects ==
    /\ \E id \in Awaiting :
          /\ scanner.scans[id].aborted
          /\ scanner' = Settle(scanner, id, "Scan timed out. Please try again.")
    /\ UNCHANGED backend

\* fetch rejects for a network failure.
FetchRejects ==
    /\ ~ MicrotaskPending
    /\ \E id \in Awaiting :
          /\ scanner.scans[id].at = "fetch"
          /\ scanner' = Settle(scanner, id, "Failed to fetch")
    /\ UNCHANGED backend

\* fetch resolves with the response headers: a response that is not JSON
\* throws, any other goes on to await res.json().
FetchResolves ==
    /\ ~ MicrotaskPending
    /\ \E id \in Awaiting, kind \in Kinds :
          /\ scanner.scans[id].at = "fetch"
          /\ scanner' = IF kind = "not-json"
                         THEN Settle(scanner, id, "Unexpected response (HTTP 500).")
                         ELSE [scanner EXCEPT !.scans[id].at = "json",
                                              !.scans[id].kind = kind]
    /\ UNCHANGED backend

\* res.json() resolves: an error or a body without a verdict throws, a
\* verdict is stored.
JsonResolves ==
    /\ ~ MicrotaskPending
    /\ \E id \in Awaiting :
          /\ scanner.scans[id].at = "json"
          /\ scanner' =
                CASE scanner.scans[id].kind = "error" ->
                        Settle(scanner, id, "Scan failed.")
                  [] scanner.scans[id].kind = "no-verdict" ->
                        Settle(scanner, id, "Invalid server response format.")
                  [] OTHER ->
                        Settle([scanner EXCEPT !.result = "fake", !.confidence = 87,
                                               !.scores = <<87, 13>>], id, "null")
    /\ UNCHANGED backend

NextScanner ==
    \/ handleFileChange \/ startScan \/ reset \/ TimeoutFires \/ AbortRejects
    \/ FetchRejects \/ FetchResolves \/ JsonResolves

SpecScanner == InitScanner /\ [][NextScanner]_vars

(* ------------------------------- claims -------------------------------- *)

\* The request passed validation, so the detectors see its bytes.
Accepted == Validation(req) = 0

\* The local adapter surfaced a failure: its promise was rejected.
LocalFailed == local.status = "rejected"

\* The remote adapter surfaced a failure: its result carries the error flag.
RemoteFailed == hf.status = "fulfilled" /\ hf.value.error

\* The local adapter delivered a pair of scores.
LocalSucceeded == local.status = "fulfilled" /\ local.value.json = "result"

\* The remote adapter delivered a pair of scores.
RemoteSucceeded == hf.status = "fulfilled" /\ ~ hf.value.error

\* The response is a Phase 4 verdict.
Phase4Verdict ==
    pc = "done" /\ IsVerdict(response)
        /\ response.detectionMethod \in {"ai-forensics", "combined"}

\* C1: a request whose bytes the watermark detector detects on never
\* creates a temporary file nor invokes an adapter, and ends in a verdict
\* of fake with confidence >= 40 under a watermark method.
C1_WatermarkTerminal ==
    (Accepted /\ detectSynthID(req.img).detected) =>
        /\ calls.writeFile = 0 /\ calls.local = 0 /\ calls.remote = 0
        /\ tmpFiles = {} /\ local.status = "idle" /\ hf.status = "idle"
        /\ pc = "done" =>
            /\ IsVerdict(response)
            /\ response.verdict = "fake"
            /\ response.confidence >= Pct(40)
            /\ response.detectionMethod \in {"synthid", "synthid+metadata"}

C1_Witness ==
    /\ pc = "done"
    /\ synthIDResult.detected
    /\ response.detectionMethod = "synthid"
    /\ response.confidence = Pct(60)

\* C2: with no watermark signal, no provenance marker and both adapters
\* failed, the response is the 503 error, never a verdict.
C2_UnavailableWithoutEvidence ==
    (pc = "done" /\ calls.metadata > 0 /\ synthIDResult.signals = <<>>
        /\ metadataResult.markers = <<>> /\ LocalFailed /\ RemoteFailed) =>
        response = ErrorResponse(503)

C2_Witness ==
    /\ pc = "done"
    /\ LocalFailed /\ RemoteFailed
    /\ metadataResult.markers = <<>>
    /\ response.status = 503

\* The scores Phase 4 returns when the pair <<a, h>> is the dominant one.
ScoresFrom(a, h) ==
    LET r == Phase4Response(metadataResult,
                            [dominantModel |-> "", artificialPct |-> a, humanPct |-> h])
    IN  <<r.artificial, r.human>>

\* C3 (as claimed): when the local adapter failed and the remote one
\* succeeded (here: with positive mass in both buckets), the remote pair is the dominant signal and the verdict's
\* scores are the remote pair's (possibly boosted), never the stand-in
\* (artificial 0, human 100) of the failed local adapter.
C3_RemotePairWhenLocalFails ==
    (pc = "done" /\ LocalFailed /\ RemoteSucceeded
        /\ hf.value.fakeScore > 0 /\ hf.value.realScore > 0) =>
        /\ IsVerdict(response)
        /\ dominant.dominantModel = "ai-image-detector"
        /\ <<response.artificial, response.human>> =
               ScoresFrom(FractionToPct(hf.value.fakeScore),
                          FractionToPct(hf.value.realScore))

\* C4 (as claimed): a request that reached Phase 3 ends in an error
\* response only when both adapters failed and the provenance detector has
\* isAI = false; one adapter failing alone still gives a verdict.
C4_ErrorOnlyWhenBothFailed ==
    (pc = "done" /\ calls.writeFile > 0 /\ ~ IsVerdict(response)) =>
        LocalFailed /\ RemoteFailed /\ ~ metadataResult.isAI

\* C5: in every verdict, confidence and both scores lie in [0, 100] and
\* have at most one decimal digit.
C5_VerdictNumbersBounded ==
    IsVerdict(response) =>
        \A n \in {response.confidence, response.artificial, response.human} :
            0 <= n /\ n <= Pct(100) /\ OneDecimal(n)

C5_Witness ==
    /\ Phase4Verdict
    /\ dominant.artificialPct > Pct(100)
    /\ ~ OneDecimal(dominant.humanPct)

\* The strong markers as the claim counts them: neither the quantization
\* heuristic nor a container marker (C2PA, JUMBF).
ClaimedStrongCount(markers) ==
    Len(Filter(markers, Range(markers) \ {QuantizationMarker, JUMBFMarker, C2PAMarker}))

\* C6 (as claimed): without a watermark, a strong-marker count >= 2 gives
\* the metadata verdict with the provenance confidence and no adapter is
\* invoked; a count < 2 proceeds to Phase 3.
C6_StrongMetadataTerminal ==
    (pc = "done" /\ calls.metadata > 0 /\ ~ synthIDResult.detected) =>
        IF ClaimedStrongCount(metadataResult.markers) >= 2
        THEN /\ response.verdict = "fake"
             /\ response.confidence = metadataResult.confidence
             /\ response.detectionMethod = "metadata"
             /\ calls.writeFile = 0 /\ calls.local = 0 /\ calls.remote = 0
        ELSE calls.writeFile > 0

\* C7: when both adapters succeeded, the adopted pair is the remote pair
\* exactly when the remote artificial percentage is strictly greater than
\* the local one, and the local pair otherwise (a tie included); both
\* components come from the same adapter.
C7_DominantIsHigherArtificial ==
    (pc = "done" /\ LocalSucceeded /\ RemoteSucceeded) =>
        LET remotePair == <<FractionToPct(hf.value.fakeScore),
                            FractionToPct(hf.value.realScore)>>
            localPair  == <<local.value.artificial, local.value.human>>
            adopted    == <<dominant.artificialPct, dominant.humanPct>>
        IN  /\ remotePair[1] > localPair[1] =>
                adopted = remotePair /\ dominant.dominantModel = "ai-image-detector"
            /\ remotePair[1] <= localPair[1] =>
                adopted = localPair /\ dominant.dominantModel = "deepfake-detector"

C7_Witness ==
    /\ pc = "done" /\ LocalSucceeded /\ RemoteSucceeded
    /\ FractionToPct(hf.value.fakeScore) = local.value.artificial
    /\ FractionToPct(hf.value.realScore) # local.value.human
    /\ dominant.dominantModel = "deepfake-detector"

\* C8: when both adapters failed and the provenance detector has
\* isAI = true, the response is the verdict fake with method metadata, the
\* provenance confidence and the provenance markers.
C8_MetadataFallback ==
    (pc = "done" /\ LocalFailed /\ RemoteFailed /\ metadataResult.isAI) =>
        /\ IsVerdict(response)
        /\ response.verdict = "fake"
        /\ response.detectionMethod = "metadata"
        /\ response.confidence = metadataResult.confidence
        /\ response.metadataMarkers = metadataResult.markers

C8_Witness ==
    /\ pc = "done" /\ LocalFailed /\ RemoteFailed
    /\ metadataResult.isAI
    /\ calls.local = 1 /\ calls.remote = 1
    /\ response.detectionMethod = "metadata"

\* C9: a Phase 4 verdict is fake exactly when the final human score is
\* <= 50 and verified otherwise; the confidence is the human score when
\* verified and the artificial score when fake.
C9_VerdictFromHumanScore ==
    Phase4Verdict =>
        /\ response.verdict \in {"fake", "verified"}
        /\ response.verdict = "fake" <=> response.human <= Pct(50)
        /\ response.verdict = "verified" => response.confidence = response.human
        /\ response.verdict = "fake" => response.confidence = response.artificial

C9_Witness ==
    /\ Phase4Verdict
    /\ response.human = Pct(50)
    /\ response.verdict = "fake"
    /\ response.artificial # response.human

\* C10: no response is produced in Phase 3 before both adapters have
\* settled; while one adapter is still pending the handler stays suspended
\* whatever the other did, a settled adapter keeps its result, a pending
\* one changes only by settling, and the failure of a single adapter still
\* ends in a verdict.
C10_State ==
    /\ (calls.local > 0 /\ pc = "done") =>
          local.status \in {"fulfilled", "rejected"} /\ hf.status = "fulfilled"
    /\ (pc = "done" /\ LocalFailed /\ RemoteSucceeded) => IsVerdict(response)
    /\ (pc = "done" /\ RemoteFailed /\ LocalSucceeded) => IsVerdict(response)

C10_Step ==
    /\ (local.status = "pending" \/ hf.status = "pending") =>
          pc' = "await" /\ response' = NoResponse
    /\ local.status \in {"fulfilled", "rejected"} => local' = local
    /\ hf.status = "fulfilled" => hf' = hf
    /\ hf.status = "pending" => hf'.status \in {"pending", "fulfilled"}
    /\ local.status = "pending" => local'.status \in {"pending", "fulfilled", "rejected"}

C10_SettleAll == [](C10_State) /\ [][C10_Step]_vars

C10_Witness ==
    /\ pc = "await"
    /\ LocalFailed
    /\ hf.status = "pending"
    /\ tmpFiles = {}

\* C11: every temporary file created for a request is gone by the time the
\* request returns a response, on every exit path after its creation.
C11_TempFileDeleted == pc = "done" => tmpFiles = {}

\* C16: within one request each detector and each adapter is invoked at
\* most once, whatever the outcome; no failure starts a second invocation.
C16_NoRetry ==
    /\ calls.synthID <= 1
    /\ calls.metadata <= 1
    /\ calls.writeFile <= 1
    /\ calls.local <= 1
    /\ calls.remote <= 1
    /\ (pc = "done" /\ calls.local = 1) =>
          calls.synthID = 1 /\ calls.metadata = 1 /\ calls.remote = 1

C16_Witness ==
    /\ pc = "done"
    /\ LocalFailed
    /\ RemoteFailed
    /\ response.status = 503
    /\ calls = [synthID |-> 1, metadata |-> 1, writeFile |-> 1, local |-> 1, remote |-> 1]

\* C17: a request without a file, with a size above 50 MB or with a type
\* outside the allowed three is answered 400, 413, 415 (the first that
\* applies, in that order), and no detector runs, no temporary file is
\* created and no adapter is invoked for it.
C17_RejectedBeforeAnyWork ==
    LET status == IF ~ req.file THEN 400
                  ELSE IF req.size > 50 * 1024 * 1024 THEN 413
                  ELSE 415
    IN  (~ req.file \/ req.size > 50 * 1024 * 1024
            \/ req.type \notin {"image/png", "image/jpeg", "image/webp"}) =>
          /\ calls = NoCalls
          /\ tmpPath = "none" /\ tmpFiles = {}
          /\ local = Idle /\ hf = HFIdle
          /\ synthIDResult = NoSynthID /\ metadataResult = NoMetadata
          /\ pc \in {"validate", "done"}
          /\ pc = "done" => response = ErrorResponse(status)

C17_Witness ==
    /\ pc = "done"
    /\ req.file
    /\ req.size > MAX_UPLOAD_BYTES
    /\ req.type = "image/gif"
    /\ response.status = 413
    /\ calls = NoCalls

\* C18 as stated: for every Phase 4 verdict the method label is "combined"
\* exactly when the boost condition holds (isAI and the dominant artificial
\* score above the dominant human score), "ai-forensics" otherwise.
C18_CombinedIffBoost ==
    Phase4Verdict =>
        (response.detectionMethod = "combined"
            <=> (metadataResult.isAI /\ dominant.artificialPct > dominant.humanPct))

\* C18, amended: for every Phase 4 verdict the method label is "combined"
\* exactly when the provenance detector reported isAI, whether or not the
\* boost condition holds, and "ai-forensics" exactly when it did not.
C18_CombinedIffIsAI ==
    Phase4Verdict =>
        /\ metadataResult.isAI => response.detectionMethod = "combined"
        /\ ~ metadataResult.isAI => response.detectionMethod = "ai-forensics"

C18_Witness ==
    /\ Phase4Verdict
    /\ metadataResult.isAI
    /\ dominant.dominantModel # "none"
    /\ dominant.artificialPct <= dominant.humanPct
    /\ response.detectionMethod = "combined"

\* C19: when the boost applies the returned artificial score is
\* min(99.9, 1.1 x dominant artificial) rounded to one decimal and the
\* returned human score is 100 minus it, so the pair sums to exactly 100;
\* when it does not apply the returned pair is the dominant pair, clamped
\* and rounded.
C19_BoostedPairComplementary ==
    (Phase4Verdict /\ dominant.dominantModel # "none") =>
        IF metadataResult.isAI /\ dominant.artificialPct > dominant.humanPct
        THEN /\ response.artificial =
                    Round1(Min(99900, (dominant.artificialPct * 11) \div 10))
             /\ response.human = Pct(100) - response.artificial
        ELSE /\ response.artificial = Max(0, Min(Pct(100), Round1(dominant.artificialPct)))
             /\ response.human = Max(0, Min(Pct(100), Round1(dominant.humanPct)))

\* C20: provenance evidence never makes the verdict more lenient: for the
\* same adapter results, a verdict that is "fake" without isAI is "fake"
\* with it, and the final artificial score with isAI is at least the one
\* without.
C20_ProvenanceNeverLenient ==
    (Phase4Verdict /\ dominant.dominantModel # "none" /\ metadataResult.isAI) =>
        LET plain == Phase4Response([metadataResult EXCEPT !.isAI = FALSE], dominant)
        IN  /\ plain.verdict = "fake" => response.verdict = "fake"
            /\ response.artificial >= plain.artificial

\* C12: no two requests that are in Phase 3 at the same time use the same
\* temporary file path: a request's path differs from the path of every
\* other request whose temporary file still exists.
C12_DistinctTmpPaths ==
    \A h \in Handlers : \A g \in Handlers \ {h} :
        (handlers[h].pc = "await" /\ handlers[g].pc = "await") =>
            handlers[h].tmpPath # handlers[g].tmpPath

\* C13: concurrent requests do not interfere: from the start of a
\* request's classifier until it settles, the file at the request's path
\* exists and holds the request's own bytes, so the scores the request
\* answers with are those of its own bytes, as when it runs alone.
C13_OwnBytesWhileClassifying ==
    \A h \in Handlers :
        /\ handlers[h].pc = "await" => Open(disk, handlers[h].tmpPath) = h
        /\ handlers[h].pc = "done" => handlers[h].classified \in {h, "not-yet"}

\* C14: every request that reaches Phase 3 eventually returns a response,
\* even if the classifier process never exits or the remote service never
\* answers.
C14_Phase3Responds == (pc = "phase3") ~> (pc = "done")

\* C21: in a Phase 1 verdict the confidence is
\* min(99, max(watermarkConf, provenanceConf) + 5) with the method
\* "synthid+metadata" when the provenance detector has isAI, and
\* watermarkConf with the method "synthid" otherwise; scores.artificial is
\* the confidence and scores.human is 100 minus it.
C21_Phase1Confidence ==
    (pc = "done" /\ synthIDResult.detected) =>
        LET w == synthIDResult.confidence
            p == metadataResult.confidence
            higher == IF w > p THEN w ELSE p
        IN  /\ IsVerdict(response)
            /\ IF metadataResult.isAI
               THEN /\ response.confidence =
                          (IF higher + 5000 > 99000 THEN 99000 ELSE higher + 5000)
                    /\ response.detectionMethod = "synthid+metadata"
               ELSE /\ response.confidence = w
                    /\ response.detectionMethod = "synthid"
            /\ response.artificial = response.confidence
            /\ response.human = 100000 - response.confidence

C21_Witness ==
    /\ pc = "done"
    /\ synthIDResult.detected
    /\ metadataResult.isAI
    /\ synthIDResult.confidence = Pct(98)
    /\ response.confidence = Pct(99)
    /\ response.human = Pct(1)
    /\ response.detectionMethod = "synthid+metadata"

\* C22: when labels of exactly one bucket match (the bucket has mass), the
\* other bucket is 1 minus the matched sum, and the two percentages the
\* engine uses sum to exactly 100.
C22_ComplementSumsTo100 ==
    LET fake == BucketSum(answer.results, {"artificial", "ai", "fake"})
        real == BucketSum(answer.results, {"human", "real"})
    IN  (pc = "scored" /\ ~ answer.throws /\ (fake > 0) # (real > 0)) =>
            /\ hf.value.fakeScore = (IF fake > 0 THEN fake ELSE 10000 - real)
            /\ hf.value.realScore = (IF real > 0 THEN real ELSE 10000 - fake)
            /\ hfFakePct(hf) + hfHumanPct(hf) = Pct(100)

\* The remote answer held no recognised label: with the positive scores of
\* HFScores, the unflagged result (0, 0) arises from such answers only.
NoRecognisedLabel ==
    hf.status = "fulfilled" /\ ~ hf.value.error
        /\ hf.value.fakeScore = 0 /\ hf.value.realScore = 0

\* C23: a remote answer in which no label matches either bucket is never
\* counted as a successful classification: combined with a failed local
\* adapter the both-failed branch is taken (the metadata fallback or 503).
C23_UnrecognisedLabelsFail ==
    (pc = "done" /\ LocalFailed /\ NoRecognisedLabel) =>
        response = (IF metadataResult.isAI
                    THEN MetadataResponse(metadataResult)
                    ELSE ErrorResponse(503))

C25_ProvenanceConfidence ==
    calls.metadata > 0 =>
        LET markers == metadataResult.markers
            strong  == ClaimedStrongCount(markers)
            weak    == Len(markers) - strong
            sum     == 50000 + 15000 * strong + 5000 * weak
        IN  /\ metadataResult.isAI = (markers # <<>>)
            /\ metadataResult.confidence =
                   (IF markers = <<>> THEN 0 ELSE IF sum > 95000 THEN 95000 ELSE sum)
            /\ strongMetadataCount(metadataResult) = strong

\* C26: the watermark confidence is 0 when the signal list is empty and
\* min(98, 40 + 20 x countStrong + 8 x countWeak) otherwise, a signal being
\* strong exactly when its label matches the high-confidence pattern;
\* detected says that the list is non-empty, so a detected result has its
\* confidence in [48, 98].
C26_WatermarkConfidence ==
    calls.synthID > 0 =>
        LET signals == synthIDResult.signals
            strong  == Cardinality({i \in DOMAIN signals : signals[i] \in HighConfidence})
            weak    == Len(signals) - strong
            sum     == 40000 + 20000 * strong + 8000 * weak
        IN  /\ synthIDResult.detected = (signals # <<>>)
            /\ synthIDResult.confidence =
                   (IF signals = <<>> THEN 0 ELSE IF sum > 98000 THEN 98000 ELSE sum)
            /\ synthIDResult.detected =>
                   synthIDResult.confidence >= 48000 /\ synthIDResult.confidence <= 98000

C26_Witness ==
    /\ calls.synthID > 0
    /\ synthIDResult.detected
    /\ synthIDResult.confidence = Pct(48)
    /\ Len(synthIDResult.signals) = 1

\* C27: the generation-parameters marker is recorded at most once per
\* image, however many description or comment fields match, so it adds at
\* most 1 to the strong-marker count of Phase 2.
C27_GenerationParamsOnce ==
    calls.metadata > 0 =>
        Cardinality({i \in DOMAIN metadataResult.markers :
                        metadataResult.markers[i] = GenerationParamsMarker}) <= 1

\* The image without what exifr would have yielded: its bytes only.
BytesOnly(img) == {x \in img : x.k \notin {"meta", "exifr"}}

\* C30: a metadata parse failure inside either detector never propagates:
\* the detector returns with exactly the signals of its byte-level steps,
\* as if the metadata were empty, and the request does not end in an
\* internal error because of it (a 500 comes from Phase 3 only).
C30_ParseFailureSwallowed ==
    (Accepted /\ ExifrThrows \in req.img) =>
        /\ calls.synthID > 0 => synthIDResult = detectSynthID(BytesOnly(req.img))
        /\ calls.metadata > 0 => metadataResult = detectMetadata(BytesOnly(req.img))
        /\ pc \notin {"validate", "phase1"} => calls.synthID = 1
        /\ pc \notin {"validate", "phase1", "phase2"} => calls.metadata = 1
        /\ (pc = "done" /\ response.status = 500) => calls.writeFile = 1

C30_Witness ==
    /\ pc = "done"
    /\ ExifrThrows \in req.img
    /\ \E x \in req.img : x.k = "meta" /\ x.v = "DeepMind"
    /\ synthIDResult.signals = <<>>
    /\ metadataResult.markers = <<>>
    /\ IsVerdict(response)

\* C28 as stated: for every byte sequence the chunk scan, signature test
\* included, never reads at an index at or past the end of the buffer,
\* decodes at most 4096 bytes of a chunk and advances on every iteration.
C28_NeverReadsPastEnd ==
    /\ Max(scan.probe, scan.highest) < Len(scan.bytes)
    /\ scan.sliceEnd <= Len(scan.bytes)
    /\ scan.longest <= 4096
    /\ scan.iterations > 0 => scan.offset > scan.previous

\* C28: inside the loop every read is at an index below the buffer length
\* and no slice asks for more, at most 4096 bytes of one chunk are decoded,
\* every iteration advances the offset by 12 or more, so that there are at
\* most Len(bytes) / 12 iterations; the signature test reads index 0, and
\* index 1 after a first byte of 0x89, and where that index is past the
\* end the scan is skipped.
C28_LoopReadsInBounds ==
    /\ scan.highest < Len(scan.bytes)
    /\ scan.sliceEnd <= Len(scan.bytes)
    /\ scan.longest <= 4096
    /\ scan.iterations > 0 => scan.offset >= scan.previous + 12
    /\ 12 * scan.iterations <= Len(scan.bytes)
    /\ scan.probe <= 1
    /\ scan.probe >= Len(scan.bytes) =>
          scan.pc = "done" /\ scan.exit = "not-png" /\ scan.iterations = 0

\* A text chunk of 4097 bytes with "c2pa" in its last four was scanned:
\* 4096 bytes were decoded and the keyword was not seen.
C28_Witness ==
    /\ scan.pc = "done"
    /\ scan.exit = "end"
    /\ scan.iterations = 1
    /\ scan.longest = 4096
    /\ Len(scan.bytes) = 8 + 12 + 4097
    /\ scan.signals = <<>>

\* Where chunk k of the layout starts in the file.
ChunkStart(layout, k) ==
    8 + Len(Flatten([j \in 1..(k - 1) |-> ChunkBytes(layout[j])]))

\* Chunk k is the first the scan meets whose declared length overruns the
\* buffer: the chunks before it are well-formed, its header is in the
\* buffer, and its declared end is not.
OverrunsAt(k) ==
    /\ \A j \in 1..(k - 1) : scan.layout[j].declared = Len(scan.layout[j].payload)
    /\ ChunkStart(scan.layout, k) + 8 <= Len(scan.bytes)
    /\ LET declared == scan.layout[k].declared
       IN  ChunkStart(scan.layout, k) + 12 + (IF declared < 0 THEN Huge ELSE declared)
               > Len(scan.bytes)

\* What the text chunks before chunk k contribute, read off the layout.
EarlierSignals(k) ==
    Flatten([j \in 1..(k - 1) |->
        LET type == fromCharCode(scan.layout[j].type)
        IN  IF type \in {"tEXt", "iTXt", "zTXt"}
            THEN KeywordSignals(type, scan.layout[j].payload)
            ELSE <<>>])

C31_FirstTableOnly ==
    (scan.pc = "done" /\ scan.jpeg /\ scan.tail >= 2) =>
        /\ Len(scan.markers) <= 1
        /\ Len(scan.examined) <= 1
        /\ scan.markers # <<>> <=>
              (scan.tables # <<>> /\ scan.tables[1] \in {"one", "four"})

\* The scores of every adapter that succeeded lie in [0, 100].
ScoresInRange ==
    /\ LocalSucceeded =>
          /\ local.value.artificial \in 0..Pct(100)
          /\ local.value.human \in 0..Pct(100)
    /\ RemoteSucceeded =>
          /\ hfFakePct(hf) \in 0..Pct(100)
          /\ hfHumanPct(hf) \in 0..Pct(100)

\* C32: in a Phase 4 verdict over adapter scores in [0, 100] the returned
\* artificial score is at least the one-decimal artificial score of every
\* adapter that succeeded.
C32_AtLeastEveryAdapter ==
    (Phase4Verdict /\ dominant.dominantModel # "none" /\ ScoresInRange) =>
        /\ LocalSucceeded => response.artificial >= Round1(local.value.artificial)
        /\ RemoteSucceeded => response.artificial >= hfFakePct(hf)

\* C33: in the single-model route, for every model response with a
\* recognised label, the verdict is "fake" exactly when the returned
\* artificial score is greater than the returned human score, and the
\* returned confidence is the returned score of the verdict's side, also
\* when only one of the two labels is present.
C33_VerdictFollowsScores ==
    (pc = "done" /\ IsVerdict(response)) =>
        /\ response.verdict = "fake" <=> response.artificial > response.human
        /\ response.confidence =
              IF response.verdict = "fake" THEN response.artificial ELSE response.human

\* C34: after reset() the component is idle with no file, no result and no
\* error until the user selects a file: nothing that happens to a scan
\* started before the reset sets result, scores, confidence or scanError.
C34_ResetStaysIdle ==
    scanner.afterReset =>
        /\ ~ scanner.file /\ ~ scanner.isScanning
        /\ scanner.result = "null" /\ scanner.scanError = "null"
        /\ scanner.confidence = 0 /\ scanner.scores = <<0, 0>>

\* The scans whose request is in flight: suspended at an await and not
\* aborted.
InFlight == {id \in Awaiting : ~ scanner.scans[id].aborted}

\* C35: at most one scan request is in flight at a time, isScanning is
\* true whenever one is, the controller ref holds the in-flight request's
\* controller, and a controller held is that of a scan that has not run
\* its cleanup: the cleanup of an earlier scan never clears the ref or the
\* flag of a later one.
C35_OneScanInFlight ==
    /\ Cardinality(InFlight) <= 1
    /\ \A id \in InFlight : scanner.isScanning /\ scanner.controllerRef = id
    /\ scanner.controllerRef # 0 =>
          scanner.controllerRef \in Awaiting /\ scanner.isScanning

\* A first scan was aborted and has run its cleanup; a second
\* scan is in flight with its own controller stored.
C35_Witness ==
    /\ Len(scanner.scans) = 2
    /\ scanner.scans[1].aborted /\ scanner.scans[1].at = "done"
    /\ InFlight = {2}
    /\ scanner.isScanning /\ scanner.controllerRef = 2

====
